---- MODULE Spec2Model ----
(***************************************************************************)
(* Margin-risk engine of the zo keeper (src/liquidator/margin_utils.rs and *)
(* src/liquidator/utils.rs).                                               *)
(*                                                                         *)
(* Number representation.  TLC's integers are 32 bits wide, so the widths  *)
(* of the program's integer types are scaled down and named:               *)
(*   i64     -> I64Bits-bit two's complement  (I64Min .. I64Max)           *)
(*   i128    -> I128Bits-bit two's complement (I128Min .. I128Max)         *)
(*   u16     -> kept at its real width (0 .. U16Max)                       *)
(*   I80F48  -> an integer "raw" value counting units of 1/FracScale       *)
(*              (FracBits fractional bits instead of 48).  The input sets  *)
(*              keep every I80F48 product exact and far inside the 80      *)
(*              integer bits, as i64-sized operands do in the program.     *)
(* A plain Rust operator (+, -, unary -, abs, pow, to_num) that leaves its *)
(* range panics when the build has overflow checks / debug assertions and  *)
(* wraps when it has not; the build is the variable overflow_checks,       *)
(* chosen once per run.  The safe_* operations return an error instead.    *)
(***************************************************************************)
EXTENDS Integers, Sequences, FiniteSets, TLC

(* ------------------------------ bounds -------------------------------- *)
\* capacity of the per-market arrays (MAX_MARKETS is 50 in the program)
MAX_MARKETS == 2
\* capacity of the per-collateral arrays (MAX_COLLATERALS is 25 in the program)
MAX_COLLATERALS == 2
\* modelled width of i64
I64Bits == 24
\* modelled number of fractional bits of I80F48
FracBits == 2

(* --------------------------- integer types ---------------------------- *)
I64Max == 2^(I64Bits - 1) - 1
I64Min == -(2^(I64Bits - 1))
I128Bits == I64Bits + 4
I128Max == 2^(I128Bits - 1) - 1
I128Min == -(2^(I128Bits - 1))
U16Max == 65535
FracScale == 2^FracBits

InI64(x) == I64Min <= x /\ x <= I64Max
InI128(x) == I128Min <= x /\ x <= I128Max
InU16(x) == 0 <= x /\ x <= U16Max

Abs(x) == IF x < 0 THEN -x ELSE x
Min(a, b) == IF a <= b THEN a ELSE b
Max(a, b) == IF a >= b THEN a ELSE b

\* two's complement wrap of x to the given width
Wrap(x, bits) == ((x + 2^(bits - 1)) % 2^bits) - 2^(bits - 1)
WrapI64(x) == Wrap(x, I64Bits)
WrapU16(x) == x % (U16Max + 1)

\* Rust integer division truncates toward zero
TruncDiv(a, b) ==
    IF (a >= 0) = (b > 0) THEN Abs(a) \div Abs(b) ELSE -(Abs(a) \div Abs(b))

(* A computation's outcome: st = "ok" with its value v, or an ErrorCode    *)
(* ("Overflow", "DivisionByZero") returned to the caller, or "panic".      *)
Ok(x) == [st |-> "ok", v |-> x]
Fail(s) == [st |-> s, v |-> 0]

\* |a * b| <= lim, decided without forming a product beyond lim
MulFits(a, b, lim) == a = 0 \/ b = 0 \/ Abs(a) <= lim \div Abs(b)

(* ------------------- checked arithmetic (math.rs) --------------------- *)
SafeAddI64(a, b) == IF InI64(a + b) THEN Ok(a + b) ELSE Fail("Overflow")
SafeSubI64(a, b) == IF InI64(a - b) THEN Ok(a - b) ELSE Fail("Overflow")
SafeMulI64(a, b) ==
    IF MulFits(a, b, I64Max + 1) /\ InI64(a * b) THEN Ok(a * b) ELSE Fail("Overflow")
SafeSubI128(a, b) == IF InI128(a - b) THEN Ok(a - b) ELSE Fail("Overflow")
SafeMulI128(a, b) ==
    IF MulFits(a, b, I128Max + 1) /\ InI128(a * b) THEN Ok(a * b) ELSE Fail("Overflow")
\* a safe_div whose quotient is rounded toward minus infinity
SafeDivI128_floors(a, b) ==
    IF b = 0 THEN Fail("DivisionByZero")
    ELSE IF a = I128Min /\ b = -1 THEN Fail("Overflow")
    ELSE Ok(a \div b)

SafeDivI128(a, b) ==
    IF b = 0 THEN Fail("DivisionByZero")
    ELSE IF a = I128Min /\ b = -1 THEN Fail("Overflow")
    ELSE Ok(TruncDiv(a, b))
SafeMulU16(a, b) == IF InU16(a * b) THEN Ok(a * b) ELSE Fail("Overflow")
SafeDivU16(a, b) == IF b = 0 THEN Fail("DivisionByZero") ELSE Ok(a \div b)

(* ------------------------ plain Rust operators ------------------------ *)
\* the outcome of a plain i64 operator whose exact result is x
PlainI64(x, checks) ==
    IF InI64(x) THEN Ok(x) ELSE IF checks THEN Fail("panic") ELSE Ok(WrapI64(x))
PlainAdd(a, b, checks) == PlainI64(a + b, checks)
PlainNeg(a, checks) == PlainI64(-a, checks)
PlainAbs(a, checks) == PlainI64(Abs(a), checks)
\* 10i64.pow(n), n small enough for 10^n to be formed
Pow10(n, checks) == PlainI64(10^n, checks)
\* u64 as i64
U64AsI64(x) == WrapI64(x)

(* ------------------------------ I80F48 -------------------------------- *)
\* I80F48::from_num of an integer
FromNum(n) == n * FracScale
\* safe_mul_i80f48 (math.rs): the product, rescaled
safe_mul_i80f48(a, b) == (a * b) \div FracScale
FixFloor(a) == (a \div FracScale) * FracScale
FixCeil(a) == (-((-a) \div FracScale)) * FracScale
\* to_num::<i64>() of a value without fractional part
ToNumI64(a, checks) == PlainI64(a \div FracScale, checks)


(* ------------------- perpetual exposure aggregation ------------------- *)
\* calc_acc_val: the running account value after one position
calc_acc_val(collateral, smol_mark_price, pos_size, native_pc_total, realized_pnl, current_funding_index, market_funding_index, coin_decimals, checks) ==
    IF pos_size = 0 THEN PlainAdd(collateral, realized_pnl, checks)
    ELSE
    LET funding_diff == SafeSubI128(market_funding_index, current_funding_index) IN
    IF funding_diff.st # "ok" THEN funding_diff ELSE
    LET prod == SafeMulI128(pos_size, -funding_diff.v) IN
    IF prod.st # "ok" THEN prod ELSE
    LET pow == Pow10(coin_decimals, checks) IN
    IF pow.st # "ok" THEN pow ELSE
    LET quot == SafeDivI128(prod.v, pow.v) IN
    IF quot.st # "ok" THEN quot ELSE
    \* .try_into().unwrap()
    IF ~InI64(quot.v) THEN Fail("panic") ELSE
    LET unrealized_funding == quot.v
        unrealized_pnl ==
            IF pos_size > 0
            THEN LET pos == ToNumI64(FixFloor(safe_mul_i80f48(FromNum(pos_size),
                                                              smol_mark_price)), checks)
                     bor == PlainNeg(native_pc_total, checks)
                 IN IF pos.st # "ok" THEN pos
                    ELSE IF bor.st # "ok" THEN bor
                    ELSE SafeSubI64(pos.v, bor.v)
            ELSE LET neg == PlainNeg(pos_size, checks) IN
                 IF neg.st # "ok" THEN neg ELSE
                 LET bor == ToNumI64(FixFloor(safe_mul_i80f48(FromNum(neg.v),
                                                              smol_mark_price)), checks)
                 IN IF bor.st # "ok" THEN bor
                    ELSE SafeSubI64(native_pc_total, bor.v)
    IN
    IF unrealized_pnl.st # "ok" THEN unrealized_pnl ELSE
    LET s1 == PlainAdd(collateral, realized_pnl, checks) IN
    IF s1.st # "ok" THEN s1 ELSE
    LET s2 == PlainAdd(s1.v, unrealized_pnl.v, checks) IN
    IF s2.st # "ok" THEN s2 ELSE
    PlainAdd(s2.v, unrealized_funding, checks)

\* ceil(|pos_size| * mark) as i64
pos_notional_of(oo_info, checks) ==
    LET a == PlainAbs(oo_info.pos_size, checks) IN
    IF a.st # "ok" THEN a
    ELSE ToNumI64(FixCeil(safe_mul_i80f48(FromNum(a.v), oo_info.mark)), checks)

\* ceil(max(|pos_size + coin_on_bids|, |pos_size - coin_on_asks|) * mark) as i64
pos_open_notional_of(oo_info, checks) ==
    LET up == PlainAdd(oo_info.pos_size, U64AsI64(oo_info.coin_on_bids), checks) IN
    IF up.st # "ok" THEN up ELSE
    LET upabs == PlainAbs(up.v, checks) IN
    IF upabs.st # "ok" THEN upabs ELSE
    LET dn == PlainI64(oo_info.pos_size - U64AsI64(oo_info.coin_on_asks), checks) IN
    IF dn.st # "ok" THEN dn ELSE
    LET dnabs == PlainAbs(dn.v, checks) IN
    IF dnabs.st # "ok" THEN dnabs ELSE
    ToNumI64(FixCeil(safe_mul_i80f48(FromNum(Max(upabs.v, dnabs.v)), oo_info.mark)),
             checks)

\* the maintenance factor of a market: base_imf.safe_div(2u16)
perp_mmf(base_imf) == SafeDivU16(base_imf, 2)
\* a cancel factor that divides before it multiplies
perp_cmf_divides_first(base_imf) == Ok((base_imf \div 8) * 5)

\* the cancel factor of a market: base_imf.safe_mul(5u16)?.safe_div(8u16)
perp_cmf(base_imf) ==
    LET m == SafeMulU16(base_imf, 5) IN IF m.st # "ok" THEN m ELSE SafeDivU16(m.v, 8)

\* the match on return_option of get_perp_acc_params: the factors pushed
\* for one market, st = "ok" or the error
perp_factors(return_option, base_imf) ==
    LET none == [st |-> "ok", imf |-> <<>>, mmf |-> <<>>, cmf |-> <<>>]
        err(r) == [none EXCEPT !.st = r.st]
    IN CASE return_option = "Mmf" ->
              LET r == perp_mmf(base_imf)
              IN IF r.st # "ok" THEN err(r) ELSE [none EXCEPT !.mmf = <<r.v>>]
         [] return_option = "Imf" -> [none EXCEPT !.imf = <<base_imf>>]
         [] return_option = "Cancel" ->
              LET r == perp_cmf(base_imf)
              IN IF r.st # "ok" THEN err(r) ELSE [none EXCEPT !.cmf = <<r.v>>]
         [] return_option = "Both" ->
              LET r == perp_mmf(base_imf)
              IN IF r.st # "ok" THEN err(r)
                 ELSE [none EXCEPT !.imf = <<base_imf>>, !.mmf = <<r.v>>]

\* PerpAccParams as get_perp_acc_params initialises it
perp_init(collateral) ==
    [st |-> "ok",
     total_acc_value |-> collateral,
     has_open_pos_notional |-> FALSE,
     total_realized_pnl |-> 0,
     pimf_vec |-> <<>>, pmmf_vec |-> <<>>, pcmf_vec |-> <<>>,
     pos_open_notional_vec |-> <<>>,
     pos_notional_vec |-> <<>>]

\* one iteration of the loop of get_perp_acc_params over a non-empty slot:
\* p is the state before it, oo_info the slot (its OpenOrdersInfo with the
\* mark, funding index, decimals and base_imf cached for the same index)
perp_iter(p, oo_info, return_option, checks) ==
    LET stop(r) == [p EXCEPT !.st = r.st]
        new_acc_val == calc_acc_val(p.total_acc_value, oo_info.mark, oo_info.pos_size,
                                    oo_info.native_pc_total, oo_info.realized_pnl,
                                    oo_info.funding_index, oo_info.funding_cache,
                                    oo_info.asset_decimals, checks)
    IN
    IF new_acc_val.st # "ok" THEN stop(new_acc_val) ELSE
    LET pos_notional == pos_notional_of(oo_info, checks) IN
    IF pos_notional.st # "ok" THEN stop(pos_notional) ELSE
    LET pos_open_notional == pos_open_notional_of(oo_info, checks) IN
    IF pos_open_notional.st # "ok" THEN stop(pos_open_notional) ELSE
    LET f == perp_factors(return_option, oo_info.base_imf) IN
    IF f.st # "ok" THEN stop(f) ELSE
    LET pnl == SafeAddI64(p.total_realized_pnl, oo_info.realized_pnl) IN
    IF pnl.st # "ok" THEN stop(pnl) ELSE
    [st |-> "ok",
     total_acc_value |-> new_acc_val.v,
     has_open_pos_notional |-> p.has_open_pos_notional \/ pos_open_notional.v > 0,
     total_realized_pnl |-> pnl.v,
     pimf_vec |-> p.pimf_vec \o f.imf,
     pmmf_vec |-> p.pmmf_vec \o f.mmf,
     pcmf_vec |-> p.pcmf_vec \o f.cmf,
     pos_open_notional_vec |-> Append(p.pos_open_notional_vec, pos_open_notional.v),
     pos_notional_vec |-> Append(p.pos_notional_vec, pos_notional.v)]

(* ------------------------------ oracles ------------------------------ *)
\* Symbol::is_nil: the all-zero symbol
NilSymbol == 0
\* binary_search_by_key over the oracle table, sorted by symbol:
\* the index found, or 0 for None
RECURSIVE binary_search(_, _, _, _)
binary_search(oracles, s, lo, hi) ==
    IF lo > hi THEN 0
    ELSE LET mid == (lo + hi) \div 2
         IN IF oracles[mid].symbol = s THEN mid
            ELSE IF oracles[mid].symbol < s THEN binary_search(oracles, s, mid + 1, hi)
            ELSE binary_search(oracles, s, lo, mid - 1)

get_oracle_index(oracles, s) ==
    IF s = NilSymbol THEN 0 ELSE binary_search(oracles, s, 1, Len(oracles))

\* get_oracle: [some |-> TRUE, price |-> ..] or None
get_oracle(oracles, s) ==
    LET i == get_oracle_index(oracles, s)
    IN IF i = 0 THEN [some |-> FALSE, price |-> 0]
       ELSE [some |-> TRUE, price |-> oracles[i].price]

(* ----------------------- collateral valuation ------------------------- *)
calc_actual_collateral(initial_col, supply_multiplier, borrow_multiplier) ==
    IF initial_col > 0 THEN safe_mul_i80f48(initial_col, supply_multiplier)
    ELSE safe_mul_i80f48(initial_col, borrow_multiplier)

(* ------------------------ spot borrow aggregation --------------------- *)
SPOT_INITIAL_MARGIN_REQ == 1100000
SPOT_MAINT_MARGIN_REQ == 1030000

\* a spot factor whose quotient is rounded up
spot_factor_rounds_up(req, weight, checks) ==
    IF weight = 0 THEN Fail("panic")
    ELSE LET q == WrapU16((req + weight - 1) \div weight)
         IN IF q >= 1000 THEN Ok(q - 1000)
            ELSE IF checks THEN Fail("panic")
            ELSE Ok(WrapU16(q - 1000 + U16Max + 1))

\* (REQ as u32 / weight as u32) as u16 - 1000u16
spot_factor(req, weight, checks) ==
    IF weight = 0 THEN Fail("panic")
    ELSE LET q == WrapU16(req \div weight)
         IN IF q >= 1000 THEN Ok(q - 1000)
            ELSE IF checks THEN Fail("panic")
            ELSE Ok(WrapU16(q - 1000 + U16Max + 1))

\* the match on return_option of get_spot_borrows
spot_factors(return_option, weight, checks) ==
    LET none == [st |-> "ok", imf |-> <<>>, mmf |-> <<>>]
    IN CASE return_option \in {"Imf", "Cancel"} ->
              LET r == spot_factor(SPOT_INITIAL_MARGIN_REQ, weight, checks)
              IN IF r.st # "ok" THEN [none EXCEPT !.st = r.st]
                 ELSE [none EXCEPT !.imf = <<r.v>>]
         [] return_option = "Mmf" ->
              LET r == spot_factor(SPOT_MAINT_MARGIN_REQ, weight, checks)
              IN IF r.st # "ok" THEN [none EXCEPT !.st = r.st]
                 ELSE [none EXCEPT !.mmf = <<r.v>>]
         [] OTHER -> none

spot_init ==
    [st |-> "ok", has_open_pos_notional |-> FALSE,
     imf_vec |-> <<>>, mmf_vec |-> <<>>, pos_open_notional_vec |-> <<>>]

\* one iteration of the loop of get_spot_borrows over slot dep_index
\* (0-based), c being the slot: its balance, CollateralInfo and borrow cache
spot_iter(sp, dep_index, c, oracles, return_option, total_realized_pnl, checks) ==
    IF c.balance >= 0 THEN sp
    ELSE
    LET dep0 == calc_actual_collateral(c.balance, c.supply_multiplier,
                                       c.borrow_multiplier)
        dep == IF dep_index = 0 THEN dep0 + FromNum(total_realized_pnl) ELSE dep0
        oracle_cache == get_oracle(oracles, c.oracle_symbol)
    IN
    \* .unwrap()
    IF ~oracle_cache.some THEN [sp EXCEPT !.st = "panic"] ELSE
    LET pos_notional ==
            ToNumI64(FixCeil(safe_mul_i80f48(oracle_cache.price, -dep)), checks)
    IN
    IF pos_notional.st # "ok" THEN [sp EXCEPT !.st = pos_notional.st] ELSE
    LET f == spot_factors(return_option, c.weight, checks) IN
    IF f.st # "ok" THEN [sp EXCEPT !.st = f.st] ELSE
    [st |-> "ok",
     has_open_pos_notional |-> sp.has_open_pos_notional \/ pos_notional.v > 0,
     imf_vec |-> sp.imf_vec \o f.imf,
     mmf_vec |-> sp.mmf_vec \o f.mmf,
     pos_open_notional_vec |-> Append(sp.pos_open_notional_vec, pos_notional.v)]

(* -------------------------- margin fraction --------------------------- *)
\* calc_weighted_sum: numerator += (factor as i64).safe_mul(weights[i]).unwrap()
RECURSIVE weighted_sum_from(_, _, _, _, _)
weighted_sum_from(factor, weights, i, numerator, checks) ==
    IF i > Len(factor) THEN Ok(numerator)
    ELSE IF i > Len(weights) THEN Fail("panic")
    ELSE LET m == SafeMulI64(factor[i], weights[i])
         IN IF m.st # "ok" THEN Fail("panic")
            ELSE LET n == PlainAdd(numerator, m.v, checks)
                 IN IF n.st # "ok" THEN n
                    ELSE weighted_sum_from(factor, weights, i + 1, n.v, checks)

calc_weighted_sum(factor, weights, checks) ==
    weighted_sum_from(factor, weights, 1, 0, checks)

\* a mutant of exceeds: ties pass
exceeds_or_equal(budget_, weighted_) == budget_ >= weighted_

\* the comparison that decides check_fraction_requirement
exceeds(budget_, weighted_) == budget_ > weighted_

MfReturnOptionOf(ft) ==
    CASE ft = "Initial" -> "Imf" [] ft = "Maintenance" -> "Mmf" [] ft = "Cancel" -> "Cancel"

\* the has_open_pos_notional branch of the match on fraction_type:
\* [st, pass, budget, weighted]
fraction_compare(ft, collateral, p, sp, checks) ==
    LET pos_open_notional_vec == p.pos_open_notional_vec \o sp.pos_open_notional_vec
        pos_notional_vec == p.pos_notional_vec \o sp.pos_open_notional_vec
        out(s, b, o, w) == [st |-> s, pass |-> b, budget |-> o, weighted |-> w]
    IN
    IF ft = "Maintenance"
    THEN LET mf == SafeMulI64(p.total_acc_value, 1000) IN
         IF mf.st # "ok" THEN out(mf.st, FALSE, 0, 0) ELSE
         LET mmf == calc_weighted_sum(p.pmmf_vec \o sp.mmf_vec, pos_notional_vec, checks)
         IN IF mmf.st # "ok" THEN out(mmf.st, FALSE, mf.v, 0)
            ELSE out("ok", exceeds(mf.v, mmf.v), mf.v, mmf.v)
    ELSE LET sum == PlainAdd(collateral, p.total_realized_pnl, checks) IN
         IF sum.st # "ok" THEN out(sum.st, FALSE, 0, 0) ELSE
         LET omf == SafeMulI64(Min(p.total_acc_value, sum.v), 1000) IN
         IF omf.st # "ok" THEN out(omf.st, FALSE, 0, 0) ELSE
         LET vec == (IF ft = "Initial" THEN p.pimf_vec ELSE p.pcmf_vec) \o sp.imf_vec
             imf == calc_weighted_sum(vec, pos_open_notional_vec, checks)
         IN IF imf.st # "ok" THEN out(imf.st, FALSE, omf.v, 0)
            ELSE out("ok", exceeds(omf.v, imf.v), omf.v, imf.v)

\* a mutant of fraction_decision: the comparison is made without exposure too
fraction_decision_always_compares(ft, collateral, p, sp, checks) ==
    fraction_compare(ft, collateral, p, sp, checks)

\* check_fraction_requirement after both aggregations succeeded
fraction_decision(ft, collateral, p, sp, checks) ==
    IF p.has_open_pos_notional \/ sp.has_open_pos_notional
    THEN fraction_compare(ft, collateral, p, sp, checks)
    ELSE [st |-> "ok", pass |-> TRUE, budget |-> 0, weighted |-> 0]

(* ------------------------------- inputs ------------------------------- *)
One == FracScale
OneAndHalf == FracScale + FracScale \div 2

\* the oracle table of the cache, sorted by symbol; symbol 3 has no entry
Oracles == << [symbol |-> 1, price |-> One], [symbol |-> 2, price |-> OneAndHalf] >>
UnpricedSymbol == Len(Oracles) + 1

\* A market slot: the account's OpenOrdersInfo (key 0 is Pubkey::default())
\* with the mark price, funding index, decimals and base_imf of its market.
Slot(key, pos_size, native_pc_total, realized_pnl, funding_index, coin_on_bids, coin_on_asks, mark, funding_cache, asset_decimals, base_imf) ==
    [key |-> key, pos_size |-> pos_size, native_pc_total |-> native_pc_total,
     realized_pnl |-> realized_pnl, funding_index |-> funding_index,
     coin_on_bids |-> coin_on_bids, coin_on_asks |-> coin_on_asks, mark |-> mark,
     funding_cache |-> funding_cache, asset_decimals |-> asset_decimals,
     base_imf |-> base_imf]

MarketSlots ==
    { Slot(0, 0, 0, 0, 0, 0, 0, 0, 0, 0, 0),             \* absent
      Slot(1, 0, 0, 0, 0, 10, 0, One, 0, 0, 160),        \* flat, a resting bid
      Slot(1, 3, -4, 2, 0, 0, 1, OneAndHalf, 5, 1, 400), \* long, pays funding
      Slot(1, -3, 5, -1, 0, 0, 2, OneAndHalf, 5, 1, 1000), \* short
      Slot(1, 0, 0, 1, 0, 0, 0, One, 0, 0, 20000),       \* flat, nothing resting
      Slot(1, 0, 0, I64Max, 0, 1, 0, One, 0, 0, 100) }   \* extreme realized P&L

\* A collateral slot: the margin balance (I80F48 raw) with the
\* CollateralInfo and the borrow cache of the same index.
Coll(balance, weight, oracle_symbol, supply_multiplier, borrow_multiplier, empty) ==
    [balance |-> balance, weight |-> weight, oracle_symbol |-> oracle_symbol,
     supply_multiplier |-> supply_multiplier,
     borrow_multiplier |-> borrow_multiplier, empty |-> empty]

CollSlots ==
    { Coll(0, 1000, UnpricedSymbol, One, One, FALSE),          \* zero balance
      Coll(FromNum(5), 1000, 1, One, One, FALSE),              \* deposit
      Coll(FromNum(-4), 900, 2, One, OneAndHalf, FALSE),       \* borrow
      Coll(FromNum(-2), 1000, UnpricedSymbol, One, One, FALSE),\* unpriced borrow
      Coll(FromNum(-1), 1000, 1, One, One, FALSE),             \* small borrow
      Coll(0, 0, NilSymbol, One, One, TRUE) }                  \* empty info

Collaterals == {0, 1, 9, I64Max}
FractionTypes == {"Initial", "Maintenance", "Cancel"}

(* ------------------------------- state -------------------------------- *)
VARIABLES
    fraction_type,   \* argument of check_fraction_requirement
    col,             \* argument: weighted collateral
    max_markets,     \* argument: active market count
    max_cols,        \* argument: active collateral count
    overflow_checks, \* the build: TRUE panics on overflow, FALSE wraps
    oo_agg,          \* the market slots read so far, in index order
    margin_col,      \* the collateral slots read so far, in index order
    pc,              \* position in the call
    index,           \* loop index (0-based)
    perp,            \* PerpAccParams being built
    spot,            \* the tuple get_spot_borrows is building
    result,          \* "none" until the call ends
    budget,          \* omf / mf of the decision
    weighted,        \* imf / mmf / cmf of the decision
    open_orders,     \* largest_open_order: the exposures collected so far
    largest,         \* largest_open_order: its return value
    largest_index,   \* largest_open_order: the index inside Some
    fn,              \* collateral valuation: the function called
    is_weighted,     \* argument of get_actual_collateral_vec
    vec,             \* get_actual_collateral_vec: the vector being built
    total,           \* get_total_collateral: the running total
    input,           \* margin factor derivation: its arguments
    output,          \* margin factor derivation: its outcome
    retries,         \* argument of retry_send
    sends,           \* retry_send: the outcomes of the sends made, in order
    last_error,      \* retry_send: the error kept from the last failed send
    response         \* retry_send: the signature inside Ok

args == << fraction_type, col, max_markets, max_cols, overflow_checks >>
margin_state == << perp, spot, budget, weighted >>
order_state == << open_orders, largest, largest_index >>
valuation_state == << fn, is_weighted, vec, total >>
factor_state == << input, output >>
retry_state == << retries, sends, last_error, response >>

vars == << args, oo_agg, margin_col, pc, index, result, margin_state, order_state,
           valuation_state, factor_state, retry_state >>

\* the variables of the operations a specification does not run
NoMargin ==
    /\ fraction_type = "Initial" /\ col = 0 /\ perp = perp_init(0) /\ spot = spot_init
    /\ budget = 0 /\ weighted = 0
NoOrders == open_orders = <<>> /\ largest = "none" /\ largest_index = 0
NoValuation == fn = "none" /\ is_weighted = FALSE /\ vec = <<>> /\ total = 0
NoFactor == input = <<>> /\ output = <<>>
NoRetry == retries = 0 /\ sends = <<>> /\ last_error = "None" /\ response = 0

\* how a failed step ends the call: `?` returns the ErrorCode, a panic unwinds
Outcome(st) == IF st = "panic" THEN "panic" ELSE "Err(" \o st \o ")"

(* ------------------ check_fraction_requirement ------------------------ *)
Init ==
    /\ fraction_type \in FractionTypes
    /\ col \in Collaterals
    /\ max_markets \in 1..MAX_MARKETS
    /\ max_cols \in 1..MAX_COLLATERALS
    /\ overflow_checks \in BOOLEAN
    /\ oo_agg = <<>>
    /\ margin_col = <<>>
    /\ pc = "get_perp_acc_params"
    /\ index = 0
    /\ perp = perp_init(col)
    /\ spot = spot_init
    /\ result = "none"
    /\ budget = 0
    /\ weighted = 0
    /\ NoOrders /\ NoValuation /\ NoFactor
    /\ NoRetry

\* one pass of the loop of get_perp_acc_params
PerpStep ==
    /\ pc = "get_perp_acc_params"
    /\ index < MAX_MARKETS /\ index < max_markets
    /\ \E oo_info \in MarketSlots :
         LET p == IF oo_info.key = 0 THEN perp
                  ELSE perp_iter(perp, oo_info, MfReturnOptionOf(fraction_type),
                                 overflow_checks)
         IN /\ oo_agg' = Append(oo_agg, oo_info)
            /\ perp' = p
            /\ IF p.st = "ok"
               THEN index' = index + 1 /\ UNCHANGED << pc, result >>
               ELSE pc' = "done" /\ result' = Outcome(p.st) /\ UNCHANGED index
    /\ UNCHANGED << args, margin_col, spot, budget, weighted >>
    /\ UNCHANGED << order_state, valuation_state, factor_state >>
    /\ UNCHANGED retry_state

\* the loop of get_perp_acc_params ends; get_spot_borrows starts
PerpEnd ==
    /\ pc = "get_perp_acc_params"
    /\ ~(index < MAX_MARKETS /\ index < max_markets)
    /\ pc' = "get_spot_borrows"
    /\ index' = 0
    /\ UNCHANGED << args, oo_agg, margin_col, perp, spot, result, budget, weighted >>
    /\ UNCHANGED << order_state, valuation_state, factor_state >>
    /\ UNCHANGED retry_state

\* one pass of the loop of get_spot_borrows
SpotStep ==
    /\ pc = "get_spot_borrows"
    /\ index < MAX_COLLATERALS /\ index < max_cols
    /\ \E c \in CollSlots :
         LET sp == spot_iter(spot, index, c, Oracles, MfReturnOptionOf(fraction_type),
                             perp.total_realized_pnl, overflow_checks)
         IN /\ margin_col' = Append(margin_col, c)
            /\ spot' = sp
            /\ IF sp.st = "ok"
               THEN index' = index + 1 /\ UNCHANGED << pc, result >>
               ELSE pc' = "done" /\ result' = Outcome(sp.st) /\ UNCHANGED index
    /\ UNCHANGED << args, oo_agg, perp, budget, weighted >>
    /\ UNCHANGED << order_state, valuation_state, factor_state >>
    /\ UNCHANGED retry_state

\* the loop of get_spot_borrows ends; the match on fraction_type decides
Decide ==
    /\ pc = "get_spot_borrows"
    /\ ~(index < MAX_COLLATERALS /\ index < max_cols)
    /\ LET d == fraction_decision(fraction_type, col, perp, spot, overflow_checks)
       IN /\ result' = IF d.st # "ok" THEN Outcome(d.st)
                       ELSE IF d.pass THEN "Ok(true)" ELSE "Ok(false)"
          /\ budget' = d.budget
          /\ weighted' = d.weighted
    /\ pc' = "done"
    /\ UNCHANGED << args, oo_agg, margin_col, index, perp, spot >>
    /\ UNCHANGED << order_state, valuation_state, factor_state >>
    /\ UNCHANGED retry_state

Next == PerpStep \/ PerpEnd \/ SpotStep \/ Decide

Spec == Init /\ [][Next]_vars

(* ---------- the margin requirement in exact integer arithmetic --------- *)
(* What the specification prescribes for the snapshot read by the call,    *)
(* computed over the unbounded integers.                                   *)
RECURSIVE SeqSum(_)
SeqSum(q) == IF q = <<>> THEN 0 ELSE q[1] + SeqSum(Tail(q))

CeilInt(raw) == -((-raw) \div FracScale)
FloorInt(raw) == raw \div FracScale

ActiveMarkets == { k \in 1..Len(oo_agg) : oo_agg[k].key # 0 }
Borrowed == { i \in 1..Len(margin_col) : margin_col[i].balance < 0 }

ExactOpenNotional(o) ==
    CeilInt(Max(Abs(o.pos_size + o.coin_on_bids), Abs(o.pos_size - o.coin_on_asks))
            * o.mark)
ExactNotional(o) == CeilInt(Abs(o.pos_size) * o.mark)

ExactRealizedPnl ==
    SeqSum([k \in 1..Len(oo_agg) |->
              IF k \in ActiveMarkets THEN oo_agg[k].realized_pnl ELSE 0])

\* the change of the running account value over one active position
ExactValueChange(o) ==
    IF o.pos_size = 0 THEN o.realized_pnl
    ELSE o.realized_pnl
         + (IF o.pos_size > 0
            THEN FloorInt(o.pos_size * o.mark) + o.native_pc_total
            ELSE o.native_pc_total - FloorInt((-o.pos_size) * o.mark))
         + TruncDiv(o.pos_size * (-(o.funding_cache - o.funding_index)),
                    10^o.asset_decimals)

ExactAccountValue ==
    col + SeqSum([k \in 1..Len(oo_agg) |->
                    IF k \in ActiveMarkets THEN ExactValueChange(oo_agg[k]) ELSE 0])

Priced(c) == \E e \in 1..Len(Oracles) : Oracles[e].symbol = c.oracle_symbol
PriceOf(c) == Oracles[CHOOSE e \in 1..Len(Oracles) :
                         Oracles[e].symbol = c.oracle_symbol].price

\* the notional of the borrow in collateral slot i (1-based; slot 1 is the quote asset)
ExactBorrowNotional(i) ==
    LET c == margin_col[i]
        dep == (c.balance * c.borrow_multiplier) \div FracScale
               + (IF i = 1 THEN ExactRealizedPnl * FracScale ELSE 0)
    IN CeilInt((PriceOf(c) * (-dep)) \div FracScale)

ExactPerpFactor(ft, base_imf) ==
    CASE ft = "Initial" -> base_imf
      [] ft = "Maintenance" -> base_imf \div 2
      [] ft = "Cancel" -> (base_imf * 5) \div 8

ExactSpotFactor(ft, weight) ==
    (IF ft = "Maintenance" THEN SPOT_MAINT_MARGIN_REQ ELSE SPOT_INITIAL_MARGIN_REQ)
        \div weight - 1000

\* no active position and no borrow has a positive notional
NoExposure ==
    /\ \A k \in ActiveMarkets : ExactOpenNotional(oo_agg[k]) <= 0
    /\ \A i \in Borrowed : Priced(margin_col[i]) => ExactBorrowNotional(i) <= 0

ExactWeightedSum(ft) ==
    SeqSum([k \in 1..Len(oo_agg) |->
              IF k \in ActiveMarkets
              THEN ExactPerpFactor(ft, oo_agg[k].base_imf)
                   * (IF ft = "Maintenance" THEN ExactNotional(oo_agg[k])
                      ELSE ExactOpenNotional(oo_agg[k]))
              ELSE 0])
    + SeqSum([i \in 1..Len(margin_col) |->
                IF i \in Borrowed
                THEN ExactSpotFactor(ft, margin_col[i].weight) * ExactBorrowNotional(i)
                ELSE 0])

\* the budget before its scaling by 1000
ExactBudgetUnits(ft) ==
    IF ft = "Maintenance" THEN ExactAccountValue
    ELSE Min(ExactAccountValue, col + ExactRealizedPnl)

\* budget * 1000 > weightedSum
ExactPass(ft) == ExactBudgetUnits(ft) > ExactWeightedSum(ft) \div 1000

Returned == pc = "done" /\ result \in {"Ok(true)", "Ok(false)"}
\* both aggregations ran to their end
Aggregated ==
    /\ pc = "done" /\ perp.st = "ok" /\ spot.st = "ok"
    /\ Len(oo_agg) = max_markets /\ Len(margin_col) = max_cols
HasOpen == perp.has_open_pos_notional \/ spot.has_open_pos_notional

(* ------------------ claims on check_fraction_requirement ------------- *)
\* C1: with open exposure the check passes only when the budget it compares
\* is strictly greater than the weighted sum it compares; a tie fails.
C1_StrictComparison ==
    Returned /\ HasOpen => (result = "Ok(true)" <=> budget > weighted)

\* C1 witness: a tie, after which the check returned false.
C1_TieReached ==
    /\ Returned /\ HasOpen /\ budget = weighted /\ budget > 0
    /\ result = "Ok(false)"

C3_ComparesPrescribedQuantities ==
    Returned /\ ~NoExposure =>
        /\ result = "Ok(true)" <=> ExactPass(fraction_type)
        /\ Len(perp.pimf_vec \o perp.pmmf_vec \o perp.pcmf_vec)
               = Len(perp.pos_open_notional_vec)
        /\ Len(spot.imf_vec \o spot.mmf_vec) = Len(spot.pos_open_notional_vec)

\* C3 holds in every build that checks overflow (no value ever wraps there).
C3_WithOverflowChecks == overflow_checks => C3_ComparesPrescribedQuantities

\* a borrow whose oracle symbol has no price was read
UnpricedBorrowRead ==
    \E i \in Borrowed : ~Priced(margin_col[i])

\* C6: no call panics on an arithmetic step, none returns a boolean that
\* differs from the exact one, and an overflowing collateral + realized P&L
\* returns the Overflow error.
C6_OverflowIsAnError ==
    pc = "done" =>
        /\ result = "panic" => UnpricedBorrowRead
        /\ Returned => (result = "Ok(true)" <=> (NoExposure \/ ExactPass(fraction_type)))
        /\ ( /\ Aggregated /\ HasOpen /\ fraction_type # "Maintenance"
             /\ ~InI64(col + perp.total_realized_pnl) ) => result = "Err(Overflow)"

\* C7: a call that prices an asset whose symbol has no oracle entry returns
\* the PriceUnavailable error.
C7_MissingPriceIsAnError ==
    pc = "done" /\ UnpricedBorrowRead => result = "Err(PriceUnavailable)"

(* --------------------------- open-order ranking ------------------------ *)
\* the exposure largest_open_order maps a slot to
order_exposure(oo_info) ==
    safe_mul_i80f48(FromNum(Max(oo_info.coin_on_asks, oo_info.coin_on_bids)),
                    oo_info.mark)

\* a mutant of max_by_key: the last minimal element
min_by_key(q) ==
    IF q = <<>> THEN 0
    ELSE CHOOSE i \in 1..Len(q) :
           /\ \A j \in 1..Len(q) : q[i] <= q[j]
           /\ \A j \in (i + 1)..Len(q) : q[j] > q[i]

\* Iterator::max_by_key over the enumerated exposures: the position (1-based)
\* of the last maximal element, 0 for an empty iterator
max_by_key(q) ==
    IF q = <<>> THEN 0
    ELSE CHOOSE i \in 1..Len(q) :
           /\ \A j \in 1..Len(q) : q[i] >= q[j]
           /\ \A j \in (i + 1)..Len(q) : q[j] < q[i]

\* largest_open_order once the exposures are collected: [ret, idx]
largest_of(exposures) ==
    LET x == max_by_key(exposures)
    IN IF x = 0 THEN [ret |-> "Err(NoPositions)", idx |-> 0]
       ELSE IF exposures[x] = 0 THEN [ret |-> "Ok(None)", idx |-> 0]
       ELSE [ret |-> "Ok(Some)", idx |-> x - 1]

OrdersInit ==
    /\ pc = "largest_open_order"
    /\ index = 0
    /\ oo_agg = <<>>
    /\ margin_col = <<>>
    /\ result = "none"
    /\ max_markets = 0 /\ max_cols = 0 /\ overflow_checks = FALSE
    /\ NoMargin /\ NoOrders /\ NoValuation /\ NoFactor
    /\ NoRetry

\* the map over open_orders_agg zipped with the marks: one slot
CollectOrder ==
    /\ pc = "largest_open_order"
    /\ index < MAX_MARKETS
    /\ \E oo_info \in MarketSlots :
         /\ oo_agg' = Append(oo_agg, oo_info)
         /\ open_orders' = Append(open_orders, order_exposure(oo_info))
    /\ index' = index + 1
    /\ UNCHANGED << args, margin_col, pc, result, margin_state, largest, largest_index,
                    valuation_state, factor_state >>
    /\ UNCHANGED retry_state

\* max_by_key and the return of largest_open_order
LargestOpenOrder ==
    /\ pc = "largest_open_order"
    /\ index = MAX_MARKETS
    /\ LET r == largest_of(open_orders)
       IN largest' = r.ret /\ largest_index' = r.idx
    /\ pc' = "has_open_orders"
    /\ UNCHANGED << args, oo_agg, margin_col, index, result, margin_state, open_orders,
                    valuation_state, factor_state >>
    /\ UNCHANGED retry_state

\* has_open_orders: largest_open_order(..)?.is_some()
HasOpenOrders ==
    /\ pc = "has_open_orders"
    /\ result' = CASE largest = "Ok(Some)" -> "Ok(true)"
                   [] largest = "Ok(None)" -> "Ok(false)"
                   [] OTHER -> largest
    /\ pc' = "done"
    /\ UNCHANGED << args, oo_agg, margin_col, index, margin_state, order_state,
                    valuation_state, factor_state >>
    /\ UNCHANGED retry_state

OrdersNext == CollectOrder \/ LargestOpenOrder \/ HasOpenOrders

SpecOrders == OrdersInit /\ [][OrdersNext]_vars

(* ---------------------- claims on open-order ranking -------------------- *)
Ranked == pc \in {"has_open_orders", "done"}
\* max(coinOnBids, coinOnAsks) * markPrice of slot k (1-based), in 1/FracScale
Exposure(k) == Max(oo_agg[k].coin_on_bids, oo_agg[k].coin_on_asks) * oo_agg[k].mark
AllAbsent == \A k \in 1..Len(oo_agg) : oo_agg[k].key = 0
Dominates(j) == \A k \in 1..Len(oo_agg) : k # j => Exposure(j) > Exposure(k)

\* C4: an account none of whose position slots is present gets the
\* NoPositions error.
C4_NoPositionsError == Ranked /\ AllAbsent => largest = "Err(NoPositions)"

\* C5: None exactly when every exposure is zero, otherwise the index of a
\* market with the maximal exposure, the dominating one if there is one;
\* has_open_orders is false exactly for None.
C5_LargestExposure ==
    Ranked =>
        /\ largest \in {"Ok(None)", "Ok(Some)"}
        /\ largest = "Ok(None)" <=> \A k \in 1..Len(oo_agg) : Exposure(k) = 0
        /\ largest = "Ok(Some)" =>
              \A k \in 1..Len(oo_agg) : Exposure(largest_index + 1) >= Exposure(k)
        /\ \A j \in 1..Len(oo_agg) :
              Dominates(j) => largest = "Ok(Some)" /\ largest_index = j - 1
        /\ pc = "done" => (result = "Ok(false)" <=> largest = "Ok(None)")
        /\ pc = "done" => (result = "Ok(true)" <=> largest = "Ok(Some)")

\* C5 witness: the first market dominates two nonzero exposures and is returned.
C5_DominatingReached ==
    /\ pc = "done" /\ Dominates(1) /\ Exposure(Len(oo_agg)) > 0
    /\ largest = "Ok(Some)" /\ largest_index = 0 /\ result = "Ok(true)"

(* -------------------------- collateral valuation ------------------------ *)
\* I80F48::from_num(weight as f64 / 1000.0): the nearest representable
\* value, ties to even
FromPermille(weight) ==
    LET n == weight * FracScale
        q == n \div 1000
        r == n % 1000
    IN IF 2 * r > 1000 \/ (2 * r = 1000 /\ q % 2 = 1) THEN q + 1 ELSE q

\* one iteration of the loop of get_actual_collateral_vec over slot c:
\* [st, vec]
vec_iter(v, c, oracles, weighted_) ==
    IF c.empty THEN [st |-> "ok", vec |-> v]
    ELSE
    LET val == calc_actual_collateral(c.balance, c.supply_multiplier,
                                      c.borrow_multiplier)
        oracle_cache == get_oracle(oracles, c.oracle_symbol)
    IN
    \* .unwrap()
    IF ~oracle_cache.some THEN [st |-> "panic", vec |-> v]
    ELSE LET weighted_price ==
                 IF weighted_ /\ val >= 0
                 THEN safe_mul_i80f48(oracle_cache.price, FromPermille(c.weight))
                 ELSE oracle_cache.price
         IN [st |-> "ok", vec |-> Append(v, safe_mul_i80f48(weighted_price, val))]

\* one iteration of the loop of get_total_collateral over slot c: [st, total]
total_iter(t, c, oracles) ==
    IF c.balance = 0 THEN [st |-> "ok", total |-> t]
    ELSE
    LET oracle == get_oracle(oracles, c.oracle_symbol) IN
    \* .unwrap()
    IF ~oracle.some THEN [st |-> "panic", total |-> t]
    ELSE LET usdc_col == safe_mul_i80f48(c.balance, oracle.price)
             weighted_col ==
                 IF usdc_col > 0
                 THEN (safe_mul_i80f48(usdc_col, FromNum(c.weight)) * FracScale)
                          \div FromNum(1000)
                 ELSE usdc_col
             accrued ==
                 IF c.balance > 0
                 THEN safe_mul_i80f48(weighted_col, c.supply_multiplier)
                 ELSE safe_mul_i80f48(weighted_col, c.borrow_multiplier)
         IN [st |-> "ok", total |-> t + accrued]

ValuationInit ==
    /\ fn \in {"get_actual_collateral_vec", "get_total_collateral"}
    /\ is_weighted \in (IF fn = "get_actual_collateral_vec" THEN BOOLEAN ELSE {FALSE})
    /\ max_cols \in 1..MAX_COLLATERALS
    /\ pc = fn
    /\ index = 0
    /\ oo_agg = <<>>
    /\ margin_col = <<>>
    /\ vec = <<>>
    /\ total = 0
    /\ result = "none"
    /\ max_markets = 0 /\ overflow_checks = FALSE
    /\ NoMargin /\ NoOrders /\ NoFactor
    /\ NoRetry

\* one pass of the loop of get_actual_collateral_vec
VecStep ==
    /\ pc = "get_actual_collateral_vec"
    /\ index < MAX_COLLATERALS /\ index < max_cols
    /\ \E c \in CollSlots :
         LET r == vec_iter(vec, c, Oracles, is_weighted)
         IN /\ margin_col' = Append(margin_col, c)
            /\ vec' = r.vec
            /\ IF r.st = "ok"
               THEN index' = index + 1 /\ UNCHANGED << pc, result >>
               ELSE pc' = "done" /\ result' = Outcome(r.st) /\ UNCHANGED index
    /\ UNCHANGED << args, oo_agg, margin_state, order_state, fn, is_weighted, total,
                    factor_state >>
    /\ UNCHANGED retry_state

\* get_actual_collateral_vec returns Ok(vec)
VecEnd ==
    /\ pc = "get_actual_collateral_vec"
    /\ ~(index < MAX_COLLATERALS /\ index < max_cols)
    /\ pc' = "done"
    /\ result' = "Ok"
    /\ UNCHANGED << args, oo_agg, margin_col, index, margin_state, order_state,
                    valuation_state, factor_state >>
    /\ UNCHANGED retry_state

\* one pass of the loop of get_total_collateral
TotalStep ==
    /\ pc = "get_total_collateral"
    /\ index < MAX_COLLATERALS
    /\ \E c \in CollSlots :
         LET r == total_iter(total, c, Oracles)
         IN /\ margin_col' = Append(margin_col, c)
            /\ total' = r.total
            /\ IF r.st = "ok"
               THEN index' = index + 1 /\ UNCHANGED << pc, result >>
               ELSE pc' = "done" /\ result' = Outcome(r.st) /\ UNCHANGED index
    /\ UNCHANGED << args, oo_agg, margin_state, order_state, fn, is_weighted, vec,
                    factor_state >>
    /\ UNCHANGED retry_state

\* get_total_collateral returns total
TotalEnd ==
    /\ pc = "get_total_collateral"
    /\ index = MAX_COLLATERALS
    /\ pc' = "done"
    /\ result' = "Ok"
    /\ UNCHANGED << args, oo_agg, margin_col, index, margin_state, order_state,
                    valuation_state, factor_state >>
    /\ UNCHANGED retry_state

ValuationNext == VecStep \/ VecEnd \/ TotalStep \/ TotalEnd

SpecValuation == ValuationInit /\ [][ValuationNext]_vars

(* --------------------- claims on collateral valuation ------------------- *)
\* every slot read that holds a nonzero balance has a priced oracle symbol
NonzeroArePriced ==
    \A i \in 1..Len(margin_col) :
        margin_col[i].balance # 0 => Priced(margin_col[i])

\* C8: a valuation all of whose nonzero balances are priced succeeds, with
\* or without weighting: a zero balance needs no price.
C8_ZeroBalanceNeedsNoPrice ==
    pc = "done" /\ NonzeroArePriced => result = "Ok"

\* get_total_collateral alone does what C8 says.
C8_HoldsForTotal ==
    fn = "get_total_collateral" => C8_ZeroBalanceNeedsNoPrice

(* ----------------------- margin factor derivation ---------------------- *)
\* math.rs on u64
SafeDivU64(a, b) == IF b = 0 THEN Fail("DivisionByZero") ELSE Ok(a \div b)
SafeSubU64(a, b) == IF a - b < 0 THEN Fail("Overflow") ELSE Ok(a - b)

\* the first statement of estimate_spot_liquidation_size:
\* SPOT_INITIAL_MARGIN_REQ.safe_div(weight as u64)?.safe_sub(1000u64)? as u16
liquidation_base_imf(weight) ==
    LET d == SafeDivU64(SPOT_INITIAL_MARGIN_REQ, weight) IN
    IF d.st # "ok" THEN d
    ELSE LET m == SafeSubU64(d.v, 1000)
         IN IF m.st # "ok" THEN m ELSE Ok(WrapU16(m.v))

ReturnOptions == {"Imf", "Mmf", "Cancel", "Both"}

\* the u16 values drawn for base_imf and weight: the low range, which holds
\* every weight whose quotient is below, inside and above the u16 range, the
\* values around the largest base_imf whose fivefold fits 16 bits, and the
\* top of the u16 range
SampleWidth == 1200
U16Sample ==
    (0..SampleWidth) \cup ((U16Max \div 5 - 4)..(U16Max \div 5 + 4))
                    \cup ((U16Max - 4)..U16Max)

\* a position and a borrow whose factor inputs are the ones drawn
PositionWith(base_imf) == Slot(1, 3, -4, 2, 0, 0, 1, OneAndHalf, 5, 1, base_imf)
BorrowWith(weight) == Coll(FromNum(-4), weight, 2, One, OneAndHalf, FALSE)

Factors(st, imf, mmf, cmf) == [st |-> st, imf |-> imf, mmf |-> mmf, cmf |-> cmf]

FactorInit ==
    /\ overflow_checks \in BOOLEAN
    /\ pc = "idle"
    /\ input = <<>> /\ output = <<>>
    /\ oo_agg = <<>> /\ margin_col = <<>>
    /\ index = 0 /\ result = "none"
    /\ max_markets = 0 /\ max_cols = 0
    /\ NoMargin /\ NoOrders /\ NoValuation
    /\ NoRetry

\* the pass of get_perp_acc_params over one position
PerpFactors ==
    /\ pc = "idle"
    /\ \E base_imf \in U16Sample, return_option \in ReturnOptions :
         LET p == perp_iter(perp_init(0), PositionWith(base_imf), return_option,
                            overflow_checks)
         IN /\ input' = << [fn |-> "get_perp_acc_params",
                            return_option |-> return_option, value |-> base_imf] >>
            /\ output' = << Factors(p.st, p.pimf_vec, p.pmmf_vec, p.pcmf_vec) >>
    /\ pc' = "done"
    /\ UNCHANGED << args, oo_agg, margin_col, index, result, margin_state, order_state,
                    valuation_state >>
    /\ UNCHANGED retry_state

\* the pass of get_spot_borrows over one borrow
SpotFactors ==
    /\ pc = "idle"
    /\ \E weight \in U16Sample, return_option \in ReturnOptions :
         LET sp == spot_iter(spot_init, 1, BorrowWith(weight), Oracles, return_option,
                             0, overflow_checks)
         IN /\ input' = << [fn |-> "get_spot_borrows",
                            return_option |-> return_option, value |-> weight] >>
            /\ output' = << Factors(sp.st, sp.imf_vec, sp.mmf_vec, <<>>) >>
    /\ pc' = "done"
    /\ UNCHANGED << args, oo_agg, margin_col, index, result, margin_state, order_state,
                    valuation_state >>
    /\ UNCHANGED retry_state

\* base_imf of estimate_spot_liquidation_size
LiquidationBaseImf ==
    /\ pc = "idle"
    /\ \E weight \in U16Sample :
         LET r == liquidation_base_imf(weight)
         IN /\ input' = << [fn |-> "estimate_spot_liquidation_size",
                            return_option |-> "Imf", value |-> weight] >>
            /\ output' = << Factors(r.st, IF r.st = "ok" THEN << r.v >> ELSE <<>>,
                                    <<>>, <<>>) >>
    /\ pc' = "done"
    /\ UNCHANGED << args, oo_agg, margin_col, index, result, margin_state, order_state,
                    valuation_state >>
    /\ UNCHANGED retry_state

FactorNext == PerpFactors \/ SpotFactors \/ LiquidationBaseImf

SpecFactor == FactorInit /\ [][FactorNext]_vars

(* -------------------- claims on margin factor derivation ---------------- *)
Derived(f) == pc = "done" /\ Len(input) = 1 /\ input[1].fn = f
PerpCall(return_option) ==
    Derived("get_perp_acc_params") /\ input[1].return_option = return_option

\* what the factors of a position are for Initial, Maintenance and the
\* combined mode
HalfAndWhole ==
    /\ PerpCall("Imf") => output[1] = Factors("ok", << input[1].value >>, <<>>, <<>>)
    /\ PerpCall("Mmf") =>
           output[1] = Factors("ok", <<>>, << input[1].value \div 2 >>, <<>>)
    /\ PerpCall("Both") =>
           output[1] = Factors("ok", << input[1].value >>,
                               << input[1].value \div 2 >>, <<>>)

\* C9 as stated: Maintenance is floor(base_imf / 2), Cancel is
\* floor(base_imf * 5 / 8) for every u16 base_imf, Initial is base_imf and the
\* combined mode pushes the Initial and the Maintenance factor.
C9_CancelForEveryU16 ==
    /\ HalfAndWhole
    /\ PerpCall("Cancel") =>
           output[1] = Factors("ok", <<>>, <<>>, << (input[1].value * 5) \div 8 >>)

\* C9 amended: as above, but Cancel is floor(base_imf * 5 / 8) only while
\* base_imf * 5 fits 16 bits; above that the pass ends in Overflow and
\* pushes no factor.
C9_CancelWhileProductFits ==
    /\ HalfAndWhole
    /\ PerpCall("Cancel") =>
           IF input[1].value * 5 <= U16Max
           THEN output[1] = Factors("ok", <<>>, <<>>, << (input[1].value * 5) \div 8 >>)
           ELSE output[1] = Factors("Overflow", <<>>, <<>>, <<>>)

C9_CancelOverflowReached ==
    /\ PerpCall("Cancel")
    /\ input[1].value * 5 > U16Max
    /\ output[1].st = "Overflow"

\* the spot requirement a call uses
RequiredRatio ==
    IF input[1].fn = "get_spot_borrows" /\ input[1].return_option = "Mmf"
    THEN SPOT_MAINT_MARGIN_REQ ELSE SPOT_INITIAL_MARGIN_REQ
\* a call that derives a spot factor
SpotCall ==
    \/ Derived("get_spot_borrows") /\ input[1].return_option # "Both"
    \/ Derived("estimate_spot_liquidation_size")
\* the factor a spot call derived, as a sequence
SpotFactorOut ==
    IF input[1].return_option = "Mmf" THEN output[1].mmf ELSE output[1].imf

\* the quotient of a spot call fits the factor's 16 bits and is at least 1000
QuotientInRange ==
    /\ input[1].value > 0
    /\ RequiredRatio \div input[1].value >= 1000
    /\ RequiredRatio \div input[1].value <= U16Max

\* C10 as stated, on the weights whose quotient is in range: the spot factor
\* is the requirement divided by the weight, rounded up, minus 1000.
C10_RoundedUp ==
    SpotCall /\ QuotientInRange =>
        /\ output[1].st = "ok"
        /\ SpotFactorOut = << -((-RequiredRatio) \div input[1].value) - 1000 >>

\* C10 amended: the quotient is rounded down, and the factor is the quotient
\* minus 1000 whenever the quotient is between 1000 and 65535.
C10_RoundedDown ==
    SpotCall /\ QuotientInRange =>
        /\ output[1].st = "ok"
        /\ SpotFactorOut = << (RequiredRatio \div input[1].value) - 1000 >>

C10_InexactQuotientReached ==
    /\ SpotCall
    /\ QuotientInRange
    /\ RequiredRatio % input[1].value # 0
    /\ output[1].st = "ok"

(* --------------------------- liquidation sizing ------------------------- *)
\* calc_max_reducible; the quotient of checked_div is cut toward zero
calc_max_reducible(weighted_sum_pimfs, weighted_col, total_acc_value, base_imf, price, liq_fee) ==
    LET capped == SafeMulI64(Min(Max(weighted_col, 0), total_acc_value), 1000) IN
    IF capped.st # "ok" THEN capped ELSE
    LET numerator == SafeSubI64(weighted_sum_pimfs, capped.v) IN
    IF numerator.st # "ok" THEN numerator ELSE
    LET diff == FromNum(base_imf) - liq_fee
        denom == safe_mul_i80f48(price, diff)
    IN
    \* checked_div(denom).unwrap()
    IF denom = 0 THEN Fail("panic")
    ELSE LET q == FixCeil(TruncDiv(FromNum(numerator.v) * FracScale, denom)) \div FracScale
         \* checked_to_num().unwrap()
         IN IF InI64(q) THEN Ok(q) ELSE Fail("panic")

\* the loop of get_max_reducible_assets over pimf_vec:
\* weighted_sum_pimfs += pos_open_notional_vec[i].safe_mul(pimf as i64)?
RECURSIVE weighted_sum_pimfs_from(_, _, _, _, _)
weighted_sum_pimfs_from(pimf_vec, pos_open_notional_vec, i, sum, checks) ==
    IF i > Len(pimf_vec) THEN Ok(sum)
    ELSE IF i > Len(pos_open_notional_vec) THEN Fail("panic")
    ELSE LET m == SafeMulI64(pos_open_notional_vec[i], pimf_vec[i])
         IN IF m.st # "ok" THEN m
            ELSE LET n == PlainAdd(sum, m.v, checks)
                 IN IF n.st # "ok" THEN n
                    ELSE weighted_sum_pimfs_from(pimf_vec, pos_open_notional_vec,
                                                 i + 1, n.v, checks)

\* get_max_reducible_assets after both aggregations succeeded:
\* [st, weighted_sum_pimfs, v]
max_reducible(p, sp, weighted_col, base_imf, price, liq_fee, checks) ==
    LET pimf_vec == p.pimf_vec \o sp.imf_vec
        pos_open_notional_vec == p.pos_open_notional_vec \o sp.pos_open_notional_vec
        w == weighted_sum_pimfs_from(pimf_vec, pos_open_notional_vec, 1, 0, checks)
    IN IF w.st # "ok" THEN [st |-> w.st, weighted_sum_pimfs |-> 0, v |-> 0]
       ELSE LET r == calc_max_reducible(w.v, weighted_col, p.total_acc_value, base_imf,
                                        price, liq_fee)
            IN [st |-> r.st, weighted_sum_pimfs |-> w.v, v |-> r.v]

\* the liquidation fee terms drawn: one that leaves a denominator, one that
\* cancels base_imf
LiqFees == { FromNum(50), FromNum(100) }

ReducibleInit ==
    /\ col \in Collaterals
    /\ max_markets \in 1..MAX_MARKETS
    /\ max_cols \in 1..MAX_COLLATERALS
    /\ overflow_checks \in BOOLEAN
    /\ \E liq_fee \in LiqFees :
         input = << [base_imf |-> 100, liq_fee |-> liq_fee, price |-> One] >>
    /\ output = <<>>
    /\ fraction_type = "Initial"
    /\ oo_agg = <<>> /\ margin_col = <<>>
    /\ pc = "get_max_reducible_assets:get_perp_acc_params"
    /\ index = 0
    /\ perp = perp_init(col)
    /\ spot = spot_init
    /\ result = "none"
    /\ budget = 0 /\ weighted = 0
    /\ NoOrders /\ NoValuation
    /\ NoRetry

\* one pass of the loop of get_perp_acc_params, called with MfReturnOption::Both
ReduciblePerpStep ==
    /\ pc = "get_max_reducible_assets:get_perp_acc_params"
    /\ index < MAX_MARKETS /\ index < max_markets
    /\ \E oo_info \in MarketSlots :
         LET p == IF oo_info.key = 0 THEN perp
                  ELSE perp_iter(perp, oo_info, "Both", overflow_checks)
         IN /\ oo_agg' = Append(oo_agg, oo_info)
            /\ perp' = p
            /\ IF p.st = "ok"
               THEN index' = index + 1 /\ UNCHANGED << pc, result >>
               ELSE pc' = "done" /\ result' = Outcome(p.st) /\ UNCHANGED index
    /\ UNCHANGED << args, margin_col, spot, budget, weighted >>
    /\ UNCHANGED << order_state, valuation_state, factor_state >>
    /\ UNCHANGED retry_state

\* get_perp_acc_params returns; get_spot_borrows starts
ReduciblePerpEnd ==
    /\ pc = "get_max_reducible_assets:get_perp_acc_params"
    /\ ~(index < MAX_MARKETS /\ index < max_markets)
    /\ pc' = "get_max_reducible_assets:get_spot_borrows"
    /\ index' = 0
    /\ UNCHANGED << args, oo_agg, margin_col, perp, spot, result, budget, weighted >>
    /\ UNCHANGED << order_state, valuation_state, factor_state >>
    /\ UNCHANGED retry_state

\* one pass of the loop of get_spot_borrows, called with MfReturnOption::Both
ReducibleSpotStep ==
    /\ pc = "get_max_reducible_assets:get_spot_borrows"
    /\ index < MAX_COLLATERALS /\ index < max_cols
    /\ \E c \in CollSlots :
         LET sp == spot_iter(spot, index, c, Oracles, "Both", perp.total_realized_pnl,
                             overflow_checks)
         IN /\ margin_col' = Append(margin_col, c)
            /\ spot' = sp
            /\ IF sp.st = "ok"
               THEN index' = index + 1 /\ UNCHANGED << pc, result >>
               ELSE pc' = "done" /\ result' = Outcome(sp.st) /\ UNCHANGED index
    /\ UNCHANGED << args, oo_agg, perp, budget, weighted >>
    /\ UNCHANGED << order_state, valuation_state, factor_state >>
    /\ UNCHANGED retry_state

\* get_spot_borrows returns; the weighted sum and calc_max_reducible
MaxReducible ==
    /\ pc = "get_max_reducible_assets:get_spot_borrows"
    /\ ~(index < MAX_COLLATERALS /\ index < max_cols)
    /\ LET r == max_reducible(perp, spot, col, input[1].base_imf, input[1].price,
                              input[1].liq_fee, overflow_checks)
       IN /\ result' = IF r.st = "ok" THEN "Ok" ELSE Outcome(r.st)
          /\ weighted' = r.weighted_sum_pimfs
          /\ output' = IF r.st = "ok" THEN << r.v >> ELSE <<>>
    /\ pc' = "done"
    /\ UNCHANGED << args, oo_agg, margin_col, index, perp, spot, budget, input >>
    /\ UNCHANGED << order_state, valuation_state >>
    /\ UNCHANGED retry_state

ReducibleNext ==
    ReduciblePerpStep \/ ReduciblePerpEnd \/ ReducibleSpotStep \/ MaxReducible

SpecReducible == ReducibleInit /\ [][ReducibleNext]_vars

(* ------------------------ claims on liquidation sizing ------------------ *)
\* the part of the Initial weighted sum that the active positions contribute
ExactPerpWeightedSum ==
    SeqSum([k \in 1..Len(oo_agg) |->
              IF k \in ActiveMarkets
              THEN oo_agg[k].base_imf * ExactOpenNotional(oo_agg[k])
              ELSE 0])

\* a borrow of positive notional was read
PositiveBorrow ==
    \E i \in Borrowed : Priced(margin_col[i]) /\ ExactBorrowNotional(i) > 0

\* C11: the weighted initial-margin sum of liquidation sizing counts the
\* borrows: with a borrow of positive notional it is strictly larger than
\* the sum over the positions alone.
C11_BorrowsRaiseWeightedSum ==
    pc = "done" /\ result = "Ok" /\ PositiveBorrow => weighted > ExactPerpWeightedSum

\* what liquidation sizing computes where no addition overflows: the sum
\* over the positions alone, whatever was borrowed.
C11_PositionsOnly ==
    pc = "done" /\ result = "Ok" /\ overflow_checks => weighted = ExactPerpWeightedSum

(* ---------------------- claims on spot borrow aggregation --------------- *)
\* one notional was emitted per negative balance read, none for the others
OnePerBorrow ==
    spot.st = "ok" => Len(spot.pos_open_notional_vec) = Cardinality(Borrowed)

\* C12: get_spot_borrows emits one notional per active asset with a negative
\* balance, none for a zero or positive balance, and no emitted notional is
\* negative, the quote asset's (index 0, after the realized P&L was added)
\* included.
C12_NotionalsNonNegative ==
    /\ OnePerBorrow
    /\ spot.st = "ok" =>
           \A j \in 1..Len(spot.pos_open_notional_vec) :
               spot.pos_open_notional_vec[j] >= 0

\* the notionals of the assets other than the quote asset are never
\* negative where no conversion overflows
C12_OtherAssetsNonNegative ==
    spot.st = "ok" /\ overflow_checks /\ Len(margin_col) >= 1
                   /\ margin_col[1].balance >= 0 =>
        \A j \in 1..Len(spot.pos_open_notional_vec) :
            spot.pos_open_notional_vec[j] >= 0

(* ------------------------ claims on the account value ------------------- *)
\* the funding numerator of a position: pos_size * -(market index - position index)
FundingNumerator(o) == o.pos_size * (-(o.funding_cache - o.funding_index))

\* the change of the running account value over one active position when
\* its unrealized funding is rounded toward minus infinity
FlooredValueChange(o) ==
    IF o.pos_size = 0 THEN o.realized_pnl
    ELSE o.realized_pnl
         + (IF o.pos_size > 0
            THEN FloorInt(o.pos_size * o.mark) + o.native_pc_total
            ELSE o.native_pc_total - FloorInt((-o.pos_size) * o.mark))
         + FundingNumerator(o) \div 10^o.asset_decimals

FlooredAccountValue ==
    col + SeqSum([k \in 1..Len(oo_agg) |->
                    IF k \in ActiveMarkets THEN FlooredValueChange(oo_agg[k]) ELSE 0])

\* the positions read so far were all valued, and their exact value fits i64
Valued(exact) == perp.st = "ok" /\ Len(oo_agg) >= 1 /\ InI64(exact)

RECURSIVE total_over(_, _, _)
total_over(cols, i, t) ==
    IF i > Len(cols) THEN [st |-> "ok", total |-> t]
    ELSE LET r == total_iter(t, cols[i], Oracles)
         IN IF r.st # "ok" THEN r ELSE total_over(cols, i + 1, r.total)

\* the collateral slots read that lie below the active collateral count
ActiveCols == SubSeq(margin_col, 1, Min(max_cols, Len(margin_col)))

\* no slot at or beyond an active count was read
ReadsActiveOnly == Len(oo_agg) <= max_markets /\ Len(margin_col) <= max_cols

\* C14: the slots at or beyond the active counts do not influence the outcome
\* of a valuation: get_actual_collateral_vec reads none of them, and the
\* outcome of get_total_collateral is the one its active slots alone give.
C14_LaterSlotsIgnored ==
    /\ fn = "get_actual_collateral_vec" => ReadsActiveOnly
    /\ pc = "done" /\ fn = "get_total_collateral" =>
           LET a == total_over(ActiveCols, 1, 0)
           IN IF a.st = "ok" THEN result = "Ok" /\ total = a.total
              ELSE result = Outcome(a.st)

\* get_actual_collateral_vec alone does what C14 says
C14_HoldsForVec == fn = "get_actual_collateral_vec" => ReadsActiveOnly

\* check_fraction_requirement reads no slot at or beyond the active counts
C14_HoldsForFraction == ReadsActiveOnly

(* -------------------------------- retry_send ---------------------------- *)
MaxRetries == 4

\* what request_builder.send() can return: a signature, or an error that is
\* an RPC response error or another client error
Signatures == {1, 2}
ClientErrors == {"RpcResponseError", "Other"}
SendOk(signature) == [ok |-> TRUE, signature |-> signature, error |-> "None"]
SendErr(e) == [ok |-> FALSE, signature |-> 0, error |-> e]
SendResults == { SendOk(g) : g \in Signatures } \cup { SendErr(e) : e \in ClientErrors }

\* a mutant of in_range: one more pass
in_range_inclusive(i, n) == i <= n

\* for _i in 0..retries: the loop has another pass
in_range(i, n) == i < n

RetryInit ==
    /\ retries \in 0..MaxRetries
    /\ sends = <<>>
    /\ last_error = "None"
    /\ response = 0
    /\ pc = "retry_send"
    /\ index = 0
    /\ result = "none"
    /\ oo_agg = <<>> /\ margin_col = <<>>
    /\ max_markets = 0 /\ max_cols = 0 /\ overflow_checks = FALSE
    /\ NoMargin /\ NoOrders /\ NoValuation /\ NoFactor

\* one pass of the loop: make_builder().send() and the match on its result
Send ==
    /\ pc = "retry_send"
    /\ in_range(index, retries)
    /\ \E r \in SendResults :
         /\ sends' = Append(sends, r)
         /\ IF r.ok
            THEN /\ result' = "Ok"
                 /\ response' = r.signature
                 /\ pc' = "done"
                 /\ UNCHANGED << index, last_error >>
            ELSE /\ last_error' = r.error
                 /\ index' = index + 1
                 /\ UNCHANGED << result, response, pc >>
    /\ UNCHANGED << args, oo_agg, margin_col, margin_state, order_state, valuation_state,
                    factor_state, retries >>

\* the loop is over: make_builder().instructions().unwrap(), which
\* RequestBuilder::instructions always passes, the error! log line chosen by
\* last_error, and Err(ErrorCode::TimeoutExceeded)
TimeoutExceeded ==
    /\ pc = "retry_send"
    /\ ~in_range(index, retries)
    /\ result' = "Err(TimeoutExceeded)"
    /\ pc' = "done"
    /\ UNCHANGED << args, oo_agg, margin_col, index, margin_state, order_state,
                    valuation_state, factor_state, retry_state >>

RetryNext == Send \/ TimeoutExceeded

SpecRetry == RetryInit /\ [][RetryNext]_vars

\* every send returns and the thread of the call keeps running
SpecRetryLive == SpecRetry /\ WF_vars(RetryNext)

(* ---------------------------- claims on retry_send ---------------------- *)
AllFailed == \A k \in 1..Len(sends) : ~sends[k].ok

\* at most `retries` sends were made and none after a successful one; a
\* finished call returned the signature of its last send when that send
\* succeeded, and TimeoutExceeded exactly when all `retries` sends failed
AttemptsAndOutcome ==
    /\ Len(sends) <= retries
    /\ \A k \in 1..(Len(sends) - 1) : ~sends[k].ok
    /\ pc = "done" =>
          /\ result \in {"Ok", "Err(TimeoutExceeded)"}
          /\ result = "Ok" <=> (Len(sends) >= 1 /\ sends[Len(sends)].ok)
          /\ result = "Ok" => response = sends[Len(sends)].signature
          /\ result = "Err(TimeoutExceeded)" <=> (Len(sends) = retries /\ AllFailed)
    /\ pc # "done" => result = "none" /\ AllFailed

\* C15: retry_send makes at most `retries` sends, one after another, stops
\* at the first success and returns its signature, returns TimeoutExceeded
\* exactly when every one of the `retries` sends failed (none is made for
\* retries = 0), and always terminates.
C15_RetrySend == [](AttemptsAndOutcome) /\ <>(pc = "done")

\* a send succeeded after earlier ones failed, and its signature was returned
C15_SuccessAfterFailuresReached ==
    /\ pc = "done" /\ result = "Ok"
    /\ Len(sends) >= 3 /\ Len(sends) < retries
    /\ response = sends[Len(sends)].signature

\* every send failed and the call returned TimeoutExceeded
C15_TimeoutReached ==
    pc = "done" /\ result = "Err(TimeoutExceeded)" /\ Len(sends) = MaxRetries

====
